---- MODULE Spec2Model ----
(***************************************************************************)
(* The Item CRUD service of the template: the endpoint handlers of         *)
(* api/v1/items/views.py, the repository ItemService of                    *)
(* api/v1/items/services.py, the per-request session of database/core.py   *)
(* and the items table of database/models/item.py.                         *)
(*                                                                         *)
(* The backing store is the SQLite file the template runs on (main.py      *)
(* creates the data directory "for SQLite file", tests/conftest.py derives *)
(* test.db from app.db): the id column is an INTEGER PRIMARY KEY without   *)
(* AUTOINCREMENT, the name column carries UNIQUE and NOT NULL, there is a  *)
(* single write transaction at a time, and readers see committed rows.     *)
(*                                                                         *)
(* Every await of the service is one step of a request, so that requests   *)
(* interleave exactly where the code can be suspended.                     *)
(***************************************************************************)
EXTENDS Integers, FiniteSets, Sequences, TLC

VARIABLES
    db,        \* committed rows of the items table
    writer,    \* the request whose session holds the open write transaction
    pending,   \* the rows as the writer's transaction sees them
    pc,        \* where each request is
    req,       \* the request's input: op, path id, body fields
    ret,       \* what the service call returned or raised
    response,  \* the HTTP response answered: status code (0: none yet), detail
    session,   \* the request's session: its state ("none", "open", "closed")
               \* and, while it is open, the session object
    writes,    \* write statements the request has issued
    commits,   \* commits the request has issued
    retired    \* history: the ids of the rows deleted so far

vars == <<db, writer, pending, pc, req, ret, response, session, writes, commits,
          retired>>

(* ------------------------------ bounds -------------------------------- *)

\* Largest rowid the model lets the store assign.
MaxId == 2

Requests == {"r1", "r2"}
NoReq == "none"

Names == {"a", "b"}
Descs == {"x"}

\* Python's None, stored as SQL NULL.
NULL == "NULL"
\* A field the request body does not carry (not in model_fields_set).
UNSET == "UNSET"

\* A JSON value that is no string and no null (a number, a list).
NOTSTR == "NOTSTR"

Ids == 1..MaxId

\* The row the concurrent requests race on.
HotIds == {1}

(* ------------------------------ the table ----------------------------- *)

Row == [id : Ids, name : Names, description : Descs \cup {NULL}]

IdsOf(rows) == {x.id : x \in rows}

\* A store without isolation: every session reads the open transaction's rows.
DirtyView(r) == IF writer # NoReq THEN pending ELSE db

\* The rows a statement run by request r sees.
View(r) == IF writer = r THEN pending ELSE db

\* WHERE Item.id == item_id
RowsWithId(rows, i) == {x \in rows : x.id = i}

\* A store that numbers a new row by the count of rows.
NextRowidByCount(rows) == Cardinality(rows) + 1

\* The rowid SQLite gives an inserted row: one more than the largest in the table.
NextRowid(rows) ==
    IF rows = {} THEN 1
    ELSE (CHOOSE m \in IdsOf(rows) : \A k \in IdsOf(rows) : k <= m) + 1

\* The name column declared without unique=True.
NoUniqueConstraint(rows, row) == FALSE

\* UNIQUE on name: another row already carries the name.
UniqueViolation(rows, row) == \E x \in rows : x.id # row.id /\ x.name = row.name

\* NOT NULL on name.
NotNullViolation(row) == row.name = NULL

RECURSIVE SortedRows(_)
\* The rows of a full scan, in rowid order.
SortedRows(rows) ==
    IF rows = {} THEN <<>>
    ELSE LET first == CHOOSE x \in rows : \A y \in rows : x.id <= y.id
         IN  <<first>> \o SortedRows(rows \ {first})

(* ------------------------------ schemas ------------------------------- *)

\* A dump that loses the description.
ModelDumpNameOnly(body) == [name |-> body.name, description |-> NULL]

\* ItemCreate.model_dump(): description defaults to None when not given.
ModelDump(body) ==
    [name |-> body.name,
     description |-> IF body.description = UNSET THEN NULL ELSE body.description]

\* A dump without exclude_unset: every field, None where the body has none.
ModelDumpAllFields(body) ==
    [f \in {"name", "description"} |-> IF body[f] = UNSET THEN NULL ELSE body[f]]

\* A dump with exclude_none: a field given as null is dropped like an absent one.
ModelDumpExcludeNone(body) ==
    [f \in {g \in {"name", "description"} : body[g] \notin {UNSET, NULL}} |-> body[f]]

\* ItemUpdate.model_dump(exclude_unset=True): only the fields the body carries.
ModelDumpExcludeUnset(body) ==
    [f \in {g \in {"name", "description"} : body[g] # UNSET} |-> body[f]]

\* .values(**update_data) applied to one row.
ApplyValues(row, data) ==
    [id |-> row.id,
     name |-> IF "name" \in DOMAIN data THEN data["name"] ELSE row.name,
     description |-> IF "description" \in DOMAIN data THEN data["description"]
                     ELSE row.description]

(* ------------------------------ results ------------------------------- *)

NoResult == [kind |-> "pending", rows |-> <<>>]
ItemResult(row) == [kind |-> "item", rows |-> <<row>>]
NoneResult == [kind |-> "none", rows |-> <<>>]
\* A scan that stops after its first row.
ListResultFirstOnly(rows) ==
    [kind |-> "list",
     rows |-> IF rows = {} THEN <<>> ELSE <<SortedRows(rows)[1]>>]
ListResult(rows) == [kind |-> "list", rows |-> SortedRows(rows)]
BoolResult(b) == [kind |-> IF b THEN "true" ELSE "false", rows |-> <<>>]
Raised(exc) == [kind |-> exc, rows |-> <<>>]

Exceptions == {"IntegrityError", "OperationalError", "InvalidRequestError"}

\* result.scalars().first() / result.scalar_one_or_none()
FirstOrNone(rows) ==
    IF rows = {} THEN NoneResult ELSE ItemResult(CHOOSE x \in rows : TRUE)

\* ItemService.get_item as a function of the rows the session sees.
GetItem(rows, i) == FirstOrNone(RowsWithId(rows, i))

(* ------------------------------ handlers ------------------------------ *)

NoResponse == [code |-> 0, detail |-> ""]
NotFound == [code |-> 404, detail |-> "Item not found"]
Answer(code) == [code |-> code, detail |-> ""]
\* Request validation failed: the framework's 422.
Unprocessable == [code |-> 422, detail |-> "validation error"]
\* An exception no handler catches: the framework's 500.
ServerError == [code |-> 500, detail |-> "Internal Server Error"]

\* Handlers that test the result against None instead of its truth value: a
\* False from delete_item is then no absence.
HandlerResponseIsNone(op, result) ==
    IF result.kind \in Exceptions THEN ServerError
    ELSE CASE op = "list"   -> Answer(200)
           [] op = "get"    -> IF result.kind = "none" THEN NotFound ELSE Answer(200)
           [] op = "create" -> Answer(201)
           [] op = "update" -> IF result.kind = "none" THEN NotFound ELSE Answer(200)
           [] op = "delete" -> Answer(204)

\* Handlers that catch the integrity failure and answer 409 Conflict.
HandlerResponseConflict(op, result) ==
    IF result.kind = "IntegrityError" THEN [code |-> 409, detail |-> "Conflict"]
    ELSE IF result.kind \in Exceptions THEN ServerError
    ELSE CASE op = "list"   -> Answer(200)
           [] op = "get"    -> IF result.kind = "none" THEN NotFound ELSE Answer(200)
           [] op = "create" -> Answer(201)
           [] op = "update" -> IF result.kind = "none" THEN NotFound ELSE Answer(200)
           [] op = "delete" -> IF result.kind = "false" THEN NotFound ELSE Answer(204)

\* What each ItemView handler answers for a service result.
HandlerResponse(op, result) ==
    IF result.kind \in Exceptions THEN ServerError
    ELSE CASE op = "list"   -> Answer(200)
           [] op = "get"    -> IF result.kind = "none" THEN NotFound ELSE Answer(200)
           [] op = "create" -> Answer(201)
           [] op = "update" -> IF result.kind = "none" THEN NotFound ELSE Answer(200)
           [] op = "delete" -> IF result.kind = "false" THEN NotFound ELSE Answer(204)

\* A session object is named by the call of get_session that made it, the
\* call being that of one request.
SessionObjects == Requests

NoSession == [state |-> "none", obj |-> NoReq]
OpenSession(o) == [state |-> "open", obj |-> o]
ClosedSession == [state |-> "closed", obj |-> NoReq]

\* One session object made at import time, handed to every request.
SharedSession(r) == CHOOSE o \in SessionObjects : TRUE

\* AsyncSessionLocal() in get_session: a session object made in the call.
NewSession(r) == r

NoInput ==
    [op |-> "none", path |-> "none", id |-> 0, name |-> UNSET, description |-> UNSET]

\* A request that checks its path parameter only.
ValidPathOnly(input) == input.path # "text"

\* The framework's validation of a request before the handler is called:
\* item_id: int = Path(...), ItemCreate (name: str, description: Optional[str])
\* and ItemUpdate (name, description: Optional[str]).
Valid(input) ==
    /\ input.path # "text"
    /\ input.op = "create" => input.name \notin {UNSET, NULL, NOTSTR}
    /\ input.name # NOTSTR
    /\ input.description # NOTSTR

Init ==
    /\ db = {}
    /\ writer = NoReq
    /\ pending = {}
    /\ pc = [r \in Requests |-> "idle"]
    /\ req = [r \in Requests |-> NoInput]
    /\ ret = [r \in Requests |-> NoResult]
    /\ response = [r \in Requests |-> NoResponse]
    /\ session = [r \in Requests |-> NoSession]
    /\ writes = [r \in Requests |-> 0]
    /\ commits = [r \in Requests |-> 0]
    /\ retired = {}

\* No other request is in flight.
Quiet(r) == \A q \in Requests \ {r} : pc[q] \in {"idle", "done"}

\* A request arrives: get_session opens its session and, when the request is
\* valid, the handler is entered; an invalid request is answered 422 without
\* the handler being called, and its session is closed.
\* Nothing of a request is kept once it is answered: the slots of the answered
\* requests are free again.
Begin(r, input, first) ==
    /\ pc[r] \in {"idle", "done"}
    /\ LET gone == {q \in Requests \ {r} : pc[q] = "done"}
           ok == Valid(input)
           Keep(f, fresh, blank) ==
               [q \in Requests |-> IF q = r THEN fresh
                                   ELSE IF q \in gone THEN blank ELSE f[q]]
       IN  /\ req' = Keep(req, input, NoInput)
           /\ pc' = Keep(pc, IF ok THEN first ELSE "done", "idle")
           /\ ret' = Keep(ret, NoResult, NoResult)
           /\ response' = Keep(response, IF ok THEN NoResponse ELSE Unprocessable,
                               NoResponse)
           /\ session' = Keep(session,
                              IF ok THEN OpenSession(NewSession(r))
                              ELSE ClosedSession,
                              NoSession)
           /\ writes' = Keep(writes, 0, 0)
           /\ commits' = Keep(commits, 0, 0)
    /\ UNCHANGED <<db, writer, pending, retired>>

\* The path parameters that arrive: the integers of ids, and, with odd values
\* allowed, a segment that is no integer.
Paths(ids, odd) ==
    {[path |-> "int", id |-> i] : i \in ids}
        \cup (IF odd = {} THEN {} ELSE {[path |-> "text", id |-> 0]})

\* GET /{item_id}
BeginGet(r, ids, odd) ==
    \E p \in Paths(ids, odd) :
        Begin(r, [op |-> "get", path |-> p.path, id |-> p.id, name |-> UNSET,
                  description |-> UNSET],
              "select")

\* GET /
BeginList(r) ==
    Begin(r, [op |-> "list", path |-> "none", id |-> 0, name |-> UNSET,
              description |-> UNSET],
          "select_all")

\* POST /, the name missing from the body when odd values are allowed
BeginCreate(r, odd) ==
    \E n \in Names \cup odd \cup (IF odd = {} THEN {} ELSE {UNSET}),
       d \in Descs \cup odd \cup {UNSET} :
        Begin(r, [op |-> "create", path |-> "none", id |-> 0, name |-> n,
                  description |-> d],
              "insert")

\* PATCH /{item_id}; update_item dumps the body and branches on it being empty
BeginUpdate(r, ids, odd) ==
    \E p \in Paths(ids, odd), n \in Names \cup odd \cup {UNSET},
       d \in Descs \cup (odd \cap {NULL}) \cup {UNSET} :
        LET body == [op |-> "update", path |-> p.path, id |-> p.id, name |-> n,
                     description |-> d]
        IN  Begin(r, body,
                  IF DOMAIN ModelDumpExcludeUnset(body) = {} THEN "select"
                  ELSE "update")

\* DELETE /{item_id}
BeginDelete(r, ids, odd) ==
    \E p \in Paths(ids, odd) :
        Begin(r, [op |-> "delete", path |-> p.path, id |-> p.id, name |-> UNSET,
                  description |-> UNSET],
              "delete")

\* The write transaction is free for request r to take (or r holds it already).
\* A store whose write transactions do not exclude each other.
NoWriteLock(r) == TRUE

CanWrite(r) == writer \in {NoReq, r}

\* get_item: SELECT ... WHERE id = item_id; first row or None.
GetItemExec(r) ==
    /\ pc[r] = "select"
    /\ ret' = [ret EXCEPT ![r] = GetItem(View(r), req[r].id)]
    /\ pc' = [pc EXCEPT ![r] = "respond"]
    /\ UNCHANGED <<db, writer, pending, req, response, session, writes, commits,
                   retired>>

\* get_all_items: SELECT all rows.
GetAllExec(r) ==
    /\ pc[r] = "select_all"
    /\ ret' = [ret EXCEPT ![r] = ListResult(View(r))]
    /\ pc' = [pc EXCEPT ![r] = "respond"]
    /\ UNCHANGED <<db, writer, pending, req, response, session, writes, commits,
                   retired>>

\* create_item: add + commit. The commit flushes the INSERT and commits it; a
\* failed flush rolls the transaction back.
CreateCommit(r) ==
    /\ pc[r] = "insert"
    /\ CanWrite(r)
    /\ LET data == ModelDump(req[r])
           newid == NextRowid(db)
           row == [id |-> newid, name |-> data.name, description |-> data.description]
       IN  IF UniqueViolation(db, row)
           THEN /\ ret' = [ret EXCEPT ![r] = Raised("IntegrityError")]
                /\ pc' = [pc EXCEPT ![r] = "respond"]
                /\ writes' = [writes EXCEPT ![r] = @ + 1]
                /\ UNCHANGED <<db, commits>>
           ELSE /\ newid <= MaxId
                /\ db' = db \cup {row}
                /\ ret' = [ret EXCEPT ![r] = ItemResult(row)]
                /\ pc' = [pc EXCEPT ![r] = "refresh"]
                /\ writes' = [writes EXCEPT ![r] = @ + 1]
                /\ commits' = [commits EXCEPT ![r] = @ + 1]
    /\ UNCHANGED <<writer, pending, req, response, session, retired>>

\* create_item: refresh(db_item) reloads the row by primary key.
CreateRefresh(r) ==
    /\ pc[r] = "refresh"
    /\ LET found == RowsWithId(View(r), ret[r].rows[1].id)
       IN  ret' = [ret EXCEPT ![r] =
                     IF found = {} THEN Raised("InvalidRequestError")
                     ELSE ItemResult(CHOOSE x \in found : TRUE)]
    /\ pc' = [pc EXCEPT ![r] = "respond"]
    /\ UNCHANGED <<db, writer, pending, req, response, session, writes, commits,
                   retired>>

\* update_item: UPDATE ... WHERE id = item_id ... RETURNING, inside the
\* session's transaction.
UpdateExec(r) ==
    /\ pc[r] = "update"
    /\ CanWrite(r)
    /\ LET data == ModelDumpExcludeUnset(req[r])
           target == RowsWithId(View(r), req[r].id)
           changed == {ApplyValues(x, data) : x \in target}
           rest == View(r) \ target
       IN  /\ writer' = r
           /\ writes' = [writes EXCEPT ![r] = @ + 1]
           /\ IF \E x \in changed : NotNullViolation(x) \/ UniqueViolation(rest, x)
              THEN /\ ret' = [ret EXCEPT ![r] = Raised("IntegrityError")]
                   /\ pending' = View(r)
                   /\ pc' = [pc EXCEPT ![r] = "respond"]
              ELSE /\ pending' = rest \cup changed
                   /\ ret' = [ret EXCEPT ![r] = FirstOrNone(changed)]
                   /\ pc' = [pc EXCEPT ![r] =
                               IF changed = {} THEN "respond" ELSE "commit"]
    /\ UNCHANGED <<db, req, response, session, commits, retired>>

\* A delete_item that commits and returns True whatever the rowcount.
DeleteExecNoRowcount(r) ==
    /\ pc[r] = "delete"
    /\ CanWrite(r)
    /\ writer' = r
    /\ writes' = [writes EXCEPT ![r] = @ + 1]
    /\ pending' = View(r) \ RowsWithId(View(r), req[r].id)
    /\ pc' = [pc EXCEPT ![r] = "commit"]
    /\ UNCHANGED <<db, req, ret, response, session, commits, retired>>

\* delete_item: DELETE ... WHERE id = item_id, inside the session's transaction.
DeleteExec(r) ==
    /\ pc[r] = "delete"
    /\ CanWrite(r)
    /\ LET target == RowsWithId(View(r), req[r].id)
           rowcount == Cardinality(target)
       IN  /\ writer' = r
           /\ writes' = [writes EXCEPT ![r] = @ + 1]
           /\ pending' = View(r) \ target
           /\ IF rowcount = 0
              THEN /\ ret' = [ret EXCEPT ![r] = BoolResult(FALSE)]
                   /\ pc' = [pc EXCEPT ![r] = "respond"]
              ELSE /\ ret' = ret
                   /\ pc' = [pc EXCEPT ![r] = "commit"]
    /\ UNCHANGED <<db, req, response, session, commits, retired>>

\* update_item / delete_item: await self.db.commit(), then return.
Commit(r) ==
    /\ pc[r] = "commit"
    /\ writer = r
    /\ db' = pending
    /\ writer' = NoReq
    /\ pending' = {}
    /\ retired' = retired \cup (IdsOf(db) \ IdsOf(pending))
    /\ commits' = [commits EXCEPT ![r] = @ + 1]
    /\ ret' = [ret EXCEPT ![r] = IF req[r].op = "delete" THEN BoolResult(TRUE) ELSE @]
    /\ pc' = [pc EXCEPT ![r] = "respond"]
    /\ UNCHANGED <<req, response, session, writes>>

\* A write statement that finds the write transaction held by another session
\* until the driver's busy timeout: "database is locked".
Busy(r) ==
    /\ pc[r] \in {"insert", "update", "delete"}
    /\ ~CanWrite(r)
    /\ ret' = [ret EXCEPT ![r] = Raised("OperationalError")]
    /\ writes' = [writes EXCEPT ![r] = @ + 1]
    /\ pc' = [pc EXCEPT ![r] = "respond"]
    /\ UNCHANGED <<db, writer, pending, req, response, session, commits, retired>>

\* The handler maps the result to a status code; get_session's finally closes
\* the session, which rolls back whatever the session left uncommitted.
Respond(r) ==
    /\ pc[r] = "respond"
    /\ response' = [response EXCEPT ![r] = HandlerResponse(req[r].op, ret[r])]
    /\ session' = [session EXCEPT ![r] = ClosedSession]
    /\ writer' = IF writer = r THEN NoReq ELSE writer
    /\ pending' = IF writer = r THEN {} ELSE pending
    /\ pc' = [pc EXCEPT ![r] = "done"]
    /\ UNCHANGED <<db, req, ret, writes, commits, retired>>

Step(r) ==
    \/ GetItemExec(r)
    \/ GetAllExec(r)
    \/ CreateCommit(r)
    \/ CreateRefresh(r)
    \/ UpdateExec(r)
    \/ DeleteExec(r)
    \/ Commit(r)
    \/ Respond(r)

\* The requests that arrive: path ids among ids; with odd values, also
\* fields given as those values, a missing name and a path that is no integer.
Arrive(r, ids, odd) ==
    \/ BeginGet(r, ids, odd)
    \/ BeginList(r)
    \/ BeginCreate(r, odd)
    \/ BeginUpdate(r, ids, odd)
    \/ BeginDelete(r, ids, odd)

\* Requests served one after the other, over every id, with explicit nulls and
\* with invalid requests.
Next == \E r \in Requests : (Quiet(r) /\ Arrive(r, Ids, {NULL, NOTSTR})) \/ Step(r)

Spec == Init /\ [][Next]_vars

\* Requests served concurrently, each in its own session, racing on one row.
NextConc == \E r \in Requests : Arrive(r, HotIds, {}) \/ Step(r) \/ Busy(r)

SpecConc == Init /\ [][NextConc]_vars

(* ------------------------------ claims -------------------------------- *)

Done(r) == pc[r] = "done"

\* The description a create body stands for: None when the body omits it.
Supplied(d) == IF d = UNSET THEN NULL ELSE d

\* The step in which request r's create inserts and commits its row.
CreateCommitted(r) == pc[r] = "insert" /\ pc'[r] = "refresh"

\* The id create_item assigned in that step.
AssignedId(r) == ret'[r].rows[1].id

\* C1 as the spec states it: the id that create assigns differs from every id
\* assigned before, the ids of the items deleted since included.
C1_IdNeverReused ==
    [][\A r \in Requests :
         CreateCommitted(r) => AssignedId(r) \notin IdsOf(db) \cup retired]_vars

\* C1, amended: the id that create assigns differs from the id of every item
\* present in the store (the id of a deleted item may be assigned again), ids
\* stay unique, and no operation changes the id of an existing item: create
\* adds its one new id, delete removes only the id it names, and every other
\* step leaves the set of ids as it is.
C1_IdFreshAmongPresent ==
    [][/\ \A r \in Requests :
            CreateCommitted(r) =>
                /\ AssignedId(r) \notin IdsOf(db)
                /\ IdsOf(db') = IdsOf(db) \cup {AssignedId(r)}
                /\ Cardinality(db') = Cardinality(db) + 1
       /\ (\A r \in Requests : ~CreateCommitted(r)) =>
            \/ IdsOf(db') = IdsOf(db)
            \/ \E r \in Requests :
                 /\ req[r].op = "delete"
                 /\ pc[r] = "commit"
                 /\ IdsOf(db') = IdsOf(db) \ {req[r].id}
       /\ \A x, y \in db' : x.id = y.id => x = y]_vars

\* C1's case: a create that succeeded after some item had been deleted.
C1_Witness ==
    \E r \in Requests :
        /\ Done(r)
        /\ req[r].op = "create"
        /\ response[r].code = 201
        /\ retired # {}

\* C2: no two items of the store have the same name; a create whose name an
\* existing item carries raises the uniqueness conflict, adds no row, and leaves
\* the existing item retrievable by get with its name and description.
C2_NameUnique ==
    [][/\ \A x, y \in db' : x.name = y.name => x = y
       /\ \A r \in Requests :
            (/\ pc[r] = "insert"
             /\ pc'[r] \in {"refresh", "respond"}
             /\ \E x \in db : x.name = req[r].name)
            => /\ ret'[r] = [kind |-> "IntegrityError", rows |-> <<>>]
               /\ pc'[r] = "respond"
               /\ db' = db
               /\ \A x \in db :
                    x.name = req[r].name =>
                        GetItem(db', x.id) = [kind |-> "item", rows |-> <<x>>]
       /\ \A r \in Requests :
            (ret[r].kind = "IntegrityError" /\ pc[r] = "respond") => db' = db]_vars

\* C2's case: a create answered after it met the uniqueness conflict.
C2_Witness ==
    \E r \in Requests :
        /\ Done(r)
        /\ req[r].op = "create"
        /\ ret[r].kind = "IntegrityError"
        /\ \E x \in db : x.name = req[r].name

\* C3: once create has returned an item with id i, a get(i) issued next returns
\* the item with id i and the name and description that were supplied.
C3_CreateThenGet ==
    \A r \in Requests :
        (Done(r) /\ req[r].op = "create" /\ ret[r].kind = "item") =>
            \A q \in Requests :
                GetItem(View(q), ret[r].rows[1].id) =
                    [kind |-> "item",
                     rows |-> <<[id |-> ret[r].rows[1].id,
                                 name |-> req[r].name,
                                 description |-> Supplied(req[r].description)]>>]

\* C3's case: a create with a description has returned its item.
C3_Witness ==
    \E r \in Requests :
        /\ Done(r)
        /\ req[r].op = "create"
        /\ ret[r].kind = "item"
        /\ req[r].description = "x"

\* Request r is an update whose body carries no field.
EmptyUpdate(r) ==
    req[r].op = "update" /\ req[r].name = UNSET /\ req[r].description = UNSET

\* Request r is an update whose body carries at least one field.
FieldUpdate(r) == req[r].op = "update" /\ ~EmptyUpdate(r)

\* The step in which request r commits its statement.
Commits(r) == pc[r] = "commit" /\ pc'[r] = "respond"

\* C4: a successful update with a non-empty field set changes only the
\* supplied fields of the item with that id: the fields not supplied keep their
\* values, the id is unchanged, every other item is unchanged, and the item
\* returned is the item stored.
C4_UpdateFrame ==
    [][\A r \in Requests :
         (FieldUpdate(r) /\ Commits(r)) =>
             \E old \in db, new \in db' :
                 /\ old.id = req[r].id
                 /\ new.id = old.id
                 /\ req[r].name = UNSET => new.name = old.name
                 /\ req[r].description = UNSET => new.description = old.description
                 /\ db' \ {new} = db \ {old}
                 /\ ret'[r] = [kind |-> "item", rows |-> <<new>>]]_vars

\* C4's case: an update of the name alone succeeded on an item that has a
\* description, next to another item.
C4_Witness ==
    \E r \in Requests :
        /\ Done(r)
        /\ FieldUpdate(r)
        /\ response[r].code = 200
        /\ req[r].name # UNSET
        /\ req[r].description = UNSET
        /\ ret[r].rows[1].description = "x"
        /\ Cardinality(db) = 2

\* C5: update(id, {}) is get(id), for a present and for an absent id: it
\* returns the item with that id or None, issues no write statement and no
\* commit, and no step of it changes the store.
C5_EmptyUpdateIsGet ==
    [][\A r \in Requests :
         /\ (EmptyUpdate(r) /\ pc[r] \notin {"idle", "done"}) =>
                /\ db' = db
                /\ pending' = pending
                /\ writer' = writer
         /\ (EmptyUpdate(r) /\ pc[r] = "respond") =>
                /\ writes[r] = 0
                /\ commits[r] = 0
                /\ \/ \E x \in db : /\ x.id = req[r].id
                                    /\ ret[r] = [kind |-> "item", rows |-> <<x>>]
                   \/ /\ \A x \in db : x.id # req[r].id
                      /\ ret[r] = [kind |-> "none", rows |-> <<>>]]_vars

\* C5's case: an update without fields answered with the item of a present id.
C5_Witness ==
    \E r \in Requests :
        /\ Done(r)
        /\ EmptyUpdate(r)
        /\ ret[r].kind = "item"
        /\ response[r].code = 200

\* C6: delete(id) returns true exactly when a row with that id was present;
\* after a true result get(id) returns absent and the other rows are unchanged;
\* with no such row it returns false, raises nothing and leaves the store
\* unchanged.
C6_Delete ==
    [][\A r \in Requests :
         req[r].op = "delete" =>
             LET present == \E x \in db : x.id = req[r].id
             IN  /\ (pc[r] = "delete" /\ pc'[r] # "delete") =>
                        /\ db' = db
                        /\ present => pc'[r] = "commit"
                        /\ ~present => /\ pc'[r] = "respond"
                                       /\ ret'[r] = [kind |-> "false", rows |-> <<>>]
                 /\ Commits(r) =>
                        /\ present
                        /\ ret'[r] = [kind |-> "true", rows |-> <<>>]
                        /\ db' = {x \in db : x.id # req[r].id}
                        /\ GetItem(db', req[r].id) = [kind |-> "none", rows |-> <<>>]
                 /\ (pc[r] = "respond" /\ pc'[r] = "done") =>
                        /\ db' = db
                        /\ writer' = NoReq
                        /\ ret'[r].kind \in {"true", "false"}]_vars

\* C6's case: a delete returned true and left another row in the store.
C6_Witness ==
    \E r \in Requests :
        /\ Done(r)
        /\ req[r].op = "delete"
        /\ ret[r].kind = "true"
        /\ db # {}

\* C7: the status each handler answers follows from the repository result
\* alone: get-by-id, update and delete answer 404 with the detail "Item not
\* found" exactly when the repository signals absence (None, None, False) and
\* 200, 200 and 204 for an item, an item and True; list answers 200 and a
\* create that returned its item 201.
C7_HandlerStatus ==
    \A r \in Requests :
        Done(r) =>
            LET absent == [code |-> 404, detail |-> "Item not found"]
                op == req[r].op
                kind == ret[r].kind
            IN  /\ op \in {"get", "update"} =>
                    /\ response[r] = absent <=> kind = "none"
                    /\ kind = "item" => response[r].code = 200
                    /\ response[r].code = 404 => response[r] = absent
                /\ op = "delete" =>
                    /\ response[r] = absent <=> kind = "false"
                    /\ kind = "true" => response[r].code = 204
                    /\ response[r].code = 404 => response[r] = absent
                /\ op = "list" => kind = "list" /\ response[r].code = 200
                /\ op = "create" =>
                    /\ kind = "item" => response[r].code = 201
                    /\ response[r].code # 404

\* C7's case: a delete of an absent id has been answered 404.
C7_Witness ==
    \E r \in Requests :
        /\ Done(r)
        /\ req[r].op = "delete"
        /\ ret[r].kind = "false"
        /\ response[r].code = 404

\* C8: an update that would give an item the name of a different existing item
\* raises the uniqueness violation instead of overwriting, never commits, and
\* both items keep their name and description.
C8_UpdateNameConflict ==
    [][\A r \in Requests :
         LET conflict ==
                 /\ req[r].op = "update"
                 /\ req[r].name \in Names
                 /\ \E x, y \in db : /\ x.id = req[r].id
                                     /\ y.id # req[r].id
                                     /\ y.name = req[r].name
         IN  /\ (conflict /\ pc[r] = "update" /\ pc'[r] # "update") =>
                    /\ ret'[r] = [kind |-> "IntegrityError", rows |-> <<>>]
                    /\ pc'[r] = "respond"
                    /\ db' = db
             /\ (conflict /\ pc[r] = "respond") =>
                    /\ db' = db
                    /\ commits'[r] = 0
                    /\ writer' = NoReq
                    /\ pending' = {}]_vars

\* C8's case: an update answered after it met the name of the other item.
C8_Witness ==
    \E r \in Requests :
        /\ Done(r)
        /\ req[r].op = "update"
        /\ req[r].name \in Names
        /\ ret[r].kind = "IntegrityError"
        /\ \E x, y \in db : x.id = req[r].id /\ y.id # x.id /\ y.name = req[r].name

\* Request r is an update that gives some field as an explicit null.
NullUpdate(r) == req[r].op = "update" /\ NULL \in {req[r].name, req[r].description}

\* C9 as the spec states it: a field given as null is treated as an absent
\* field, so the update leaves that stored field as it is.
C9_NullAsAbsent ==
    [][\A r \in Requests :
         (NullUpdate(r) /\ pc[r] \notin {"idle", "done"}) =>
             \A x \in db :
                 x.id = req[r].id =>
                     \E y \in db' :
                         /\ y.id = x.id
                         /\ req[r].name = NULL => y.name = x.name
                         /\ req[r].description = NULL => y.description = x.description]_vars

\* C9, amended: an explicit null is a supplied value, not an absent field. An
\* update that gives a field as null issues its UPDATE statement; with the
\* description null and the name valid or absent, a successful update stores a
\* null description; with the name null and the id present it raises the NOT
\* NULL violation and the store is unchanged; with the id absent it returns
\* None.
C9_NullIsSupplied ==
    [][\A r \in Requests :
         NullUpdate(r) =>
             LET present == \E x \in db : x.id = req[r].id
             IN  /\ pc[r] # "select"
                 /\ (pc[r] = "update" /\ pc'[r] # "update") =>
                        /\ writes'[r] = 1
                        /\ db' = db
                        /\ ~present => ret'[r] = [kind |-> "none", rows |-> <<>>]
                        /\ (present /\ req[r].name = NULL) =>
                               ret'[r] = [kind |-> "IntegrityError", rows |-> <<>>]
                 /\ Commits(r) =>
                        /\ req[r].description = NULL
                        /\ \E y \in db' : /\ y.id = req[r].id
                                          /\ y.description = NULL
                                          /\ ret'[r] = [kind |-> "item", rows |-> <<y>>]
                 /\ (pc[r] = "respond" /\ ret[r].kind = "IntegrityError") => db' = db]_vars

\* C9's case: an update that gives the description as null is about to commit
\* on an item whose description is set.
C9_Witness ==
    \E r \in Requests :
        /\ pc[r] = "commit"
        /\ req[r].op = "update"
        /\ req[r].description = NULL
        /\ \E x \in db : x.id = req[r].id /\ x.description = "x"

\* Request r's call returned success for a mutating operation.
MutationSucceeded(r) ==
    \/ req[r].op = "create" /\ ret[r].kind = "item"
    \/ FieldUpdate(r) /\ ret[r].kind = "item"
    \/ req[r].op = "delete" /\ ret[r].kind = "true"

\* C10: a create, an update with fields or a delete that returns success has
\* committed its change before it returns; the committed rows change only in
\* the step in which a request commits, so a call that never commits leaves
\* the store as it was and leaves nothing pending behind; and what a read of
\* another request returns is made of committed rows only, never of the rows of
\* an open transaction.
C10_CommitOrNothing ==
    [][/\ db' # db =>
            \E r \in Requests :
                /\ pc[r] \in {"insert", "commit"}
                /\ commits'[r] = commits[r] + 1
       /\ \A r \in Requests :
            (pc[r] = "respond" /\ pc'[r] = "done") =>
                /\ MutationSucceeded(r) => commits[r] = 1 /\ writer # r
                /\ writer' # r
                /\ db' = db
       /\ \A r \in Requests :
            (pc[r] \in {"select", "select_all", "refresh"} /\ pc'[r] = "respond") =>
                /\ writer # r
                /\ \A k \in 1..Len(ret'[r].rows) : ret'[r].rows[k] \in db
                /\ pc[r] = "select" =>
                       (ret'[r].kind = "none" <=> \A x \in db : x.id # req[r].id)
                /\ pc[r] = "select_all" => Len(ret'[r].rows) = Cardinality(db)]_vars

\* C10's case: a get has read an item while another request holds an open
\* transaction whose rows differ from the committed ones.
C10_Witness ==
    \E r, q \in Requests :
        /\ writer = q
        /\ pending # db
        /\ pc[r] = "respond"
        /\ req[r].op = "get"
        /\ ret[r].kind = "item"

\* The request is one the framework must reject: its path parameter is no
\* integer, a create has no string for a name, or a field is of a wrong type.
Malformed(input) ==
    \/ input.path = "text"
    \/ input.op = "create" /\ input.name \notin Names
    \/ input.name = NOTSTR
    \/ input.description = NOTSTR

\* C11: a request whose path identifier is no integer or whose body fails
\* validation is answered 422 in the step it arrives in; no repository
\* operation is invoked for it (no statement, no commit, no result) and the
\* store is unchanged.
C11_Rejected ==
    [][\A r \in Requests :
         (req'[r] # req[r] /\ Malformed(req'[r])) =>
             /\ pc'[r] = "done"
             /\ response'[r].code = 422
             /\ ret'[r].kind = "pending"
             /\ writes'[r] = 0
             /\ commits'[r] = 0
             /\ db' = db
             /\ pending' = pending
             /\ writer' = writer]_vars

\* C11's case: a create without a name has been answered while the store
\* holds an item.
C11_Witness ==
    \E r \in Requests :
        /\ Done(r)
        /\ req[r].op = "create"
        /\ req[r].name = UNSET
        /\ response[r].code = 422
        /\ db # {}

\* Request r is about to issue a statement that gives a row a name another
\* stored row has: a create of a stored name, or an update of a stored item to
\* the name of a different one.
NameClash(r) ==
    /\ req[r].name \in Names
    /\ \/ /\ pc[r] = "insert"
          /\ \E y \in db : y.name = req[r].name
       \/ /\ pc[r] = "update"
          /\ \E x, y \in db : /\ x.id = req[r].id
                              /\ y.id # req[r].id
                              /\ y.name = req[r].name

\* C12: a uniqueness violation on name during create or update leaves the
\* service as the integrity failure, and the handler answers that failure
\* with a status of the 5xx class: never 409, never a 2xx success, never 404.
C12_ConflictIs5xx ==
    [][\A r \in Requests :
         /\ (NameClash(r) /\ pc'[r] # pc[r]) =>
                /\ ret'[r].kind = "IntegrityError"
                /\ pc'[r] = "respond"
         /\ (pc[r] = "respond" /\ ret[r].kind = "IntegrityError" /\ pc'[r] = "done") =>
                /\ response'[r].code \in 500..599
                /\ response'[r].code \notin {200, 201, 204, 404, 409}]_vars

\* C12's case: a create of a name the store already holds has been answered.
C12_Witness ==
    \E r \in Requests :
        /\ Done(r)
        /\ req[r].op = "create"
        /\ ret[r].kind = "IntegrityError"
        /\ response[r].code = 500
        /\ \E y \in db : y.name = req[r].name

\* C13: get_all_items returns every item the store holds at the time of the
\* call, each exactly once and none the store does not hold; the list handler
\* answers 200 with that sequence, which is empty when the store is empty.
C13_ListAll ==
    [][\A r \in Requests :
         /\ (pc[r] = "select_all" /\ pc'[r] # "select_all") =>
                LET rows == ret'[r].rows
                IN  /\ ret'[r].kind = "list"
                    /\ {rows[i] : i \in DOMAIN rows} = db
                    /\ Len(rows) = Cardinality(db)
                    /\ db = {} => rows = <<>>
                    /\ db' = db
         /\ (req[r].op = "list" /\ pc[r] = "respond" /\ pc'[r] = "done") =>
                /\ response'[r].code = 200
                /\ ret'[r] = ret[r]]_vars

\* C13's case: a list over a store of two items has been answered.
C13_Witness ==
    \E r \in Requests :
        /\ Done(r)
        /\ req[r].op = "list"
        /\ Cardinality(db) = 2
        /\ Len(ret[r].rows) = 2
        /\ response[r].code = 200

\* The row an update request r makes of the row x: the fields its body
\* carries replaced, the others kept.
Updated(x, r) ==
    [id |-> x.id,
     name |-> IF req[r].name = UNSET THEN x.name ELSE req[r].name,
     description |-> IF req[r].description = UNSET THEN x.description
                     ELSE req[r].description]

\* C14: concurrent updates of one id that succeed are applied one after the
\* other in the order of their commits, the last write winning: the commit of
\* each replaces the row the store holds at that commit (the row the earlier
\* commit left) by that row with the request's fields applied, and no version
\* check rejects an update whose row another request has changed meanwhile.
C14_LastWriteWins ==
    [][\A r \in Requests :
         /\ (FieldUpdate(r) /\ Commits(r)) =>
                \E x \in db :
                    /\ x.id = req[r].id
                    /\ db' = (db \ {x}) \cup {Updated(x, r)}
                    /\ ret[r] = [kind |-> "item", rows |-> <<Updated(x, r)>>]
         /\ (FieldUpdate(r) /\ pc[r] = "update" /\ pc'[r] \in {"commit", "respond"}
               /\ writer = NoReq
               /\ \E x \in db : /\ x.id = req[r].id
                                /\ \A y \in db \ {x} : y.name # Updated(x, r).name
                                /\ Updated(x, r).name # NULL) =>
                pc'[r] = "commit"]_vars

\* C14's case: two updates of one id, each with its own field, have both been
\* answered 200 while they were in flight together, and the stored item
\* carries the field of the first commit under the row the second returned.
C14_Witness ==
    \E r, q \in Requests :
        /\ r # q
        /\ Done(r) /\ Done(q)
        /\ FieldUpdate(r) /\ FieldUpdate(q)
        /\ req[r].id = req[q].id
        /\ req[r].name # UNSET /\ req[r].description = UNSET
        /\ req[q].name = UNSET /\ req[q].description # UNSET
        /\ response[r].code = 200 /\ response[q].code = 200
        /\ ret[r].rows[1] \notin db
        /\ ret[q].rows[1] \in db
        /\ ret[q].rows[1] = Updated(ret[r].rows[1], q)
        /\ ret[r].rows[1].description # ret[q].rows[1].description

\* Request r is between its arrival and its answer.
InFlight(r) == pc[r] \notin {"idle", "done"}

\* C15: each request in flight works in an open session of its own, no session
\* object is that of two requests at once, and the session of an answered
\* request is closed and holds no transaction, whatever the handler answered
\* (404 and the 500 of a store failure included).
C15_SessionPerRequest ==
    /\ \A r \in Requests :
        /\ InFlight(r) => session[r].state = "open" /\ session[r].obj \in SessionObjects
        /\ Done(r) => session[r].state = "closed" /\ writer # r
        /\ writer = r => InFlight(r)
    /\ \A r, q \in Requests :
        (r # q /\ InFlight(r) /\ InFlight(q)) => session[r].obj # session[q].obj

\* C15's case: a request whose handler raised a store failure has been
\* answered and its session is closed, while another request, answered 404
\* before, has its session closed too.
C15_Witness ==
    \E r, q \in Requests :
        /\ r # q
        /\ Done(r) /\ response[r].code = 500 /\ session[r].state = "closed"
        /\ Done(q) /\ response[q].code = 404 /\ session[q].state = "closed"

\* C16: an update with fields and a delete issue their statement once, never
\* again; they commit once when the statement matched a row and returned it
\* (or its count), and not at all when it matched no row, the update then
\* returning None and the delete False.
C16_OneStatementOneCommit ==
    [][\A r \in Requests :
         ((FieldUpdate(r) \/ req[r].op = "delete") /\ req'[r] = req[r]) =>
             LET matched == \E x \in View(r) : x.id = req[r].id
                 success == {"item", "true"}
             IN  /\ (pc[r] \in {"update", "delete"} /\ pc'[r] # pc[r]) =>
                        /\ writes[r] = 0 /\ writes'[r] = 1
                        /\ commits'[r] = 0
                        /\ pc'[r] \in {"commit", "respond"}
                        /\ pc'[r] = "commit" => matched
                        /\ ~matched => /\ pc'[r] = "respond"
                                       /\ ret'[r].kind \in {"none", "false"}
                 /\ (pc[r] = "commit" /\ pc'[r] # pc[r]) =>
                        /\ pc'[r] = "respond"
                        /\ writes'[r] = 1
                        /\ commits[r] = 0 /\ commits'[r] = 1
                        /\ ret'[r].kind \in success
                 /\ (pc[r] = "respond" /\ pc'[r] # pc[r]) =>
                        /\ pc'[r] = "done"
                        /\ writes[r] = 1 /\ writes'[r] = 1
                        /\ commits'[r] = commits[r]
                        /\ commits[r] = IF ret[r].kind \in success THEN 1 ELSE 0]_vars

\* C16's case: an update with fields of an id the store does not hold has been
\* answered after one statement and no commit, the store holding other items.
C16_Witness ==
    \E r \in Requests :
        /\ Done(r)
        /\ FieldUpdate(r)
        /\ ret[r].kind = "none"
        /\ writes[r] = 1
        /\ commits[r] = 0
        /\ db # {}

\* Requests r and q are two deletes of one id, both holding their slot.
DeletePair(r, q) ==
    /\ r # q
    /\ req[r].op = "delete" /\ req[q].op = "delete"
    /\ req[r].id = req[q].id
    /\ req[r].path = "int" /\ req[q].path = "int"

C18_CommittedCreateReturnsSupplied ==
    \A r \in Requests :
        (Done(r) /\ req[r].op = "create" /\ commits[r] = 1) =>
            /\ response[r].code = 201
            /\ ret[r].kind = "item"
            /\ ret[r].rows[1].name = req[r].name
            /\ ret[r].rows[1].description = Supplied(req[r].description)

\* C18's case: a create has committed its row, another request has deleted
\* the row before the refresh, and the create has been answered 500.
C18_Witness ==
    \E r, q \in Requests :
        /\ Done(r)
        /\ req[r].op = "create"
        /\ commits[r] = 1
        /\ ret[r].kind = "InvalidRequestError"
        /\ response[r].code = 500
        /\ req[q].op = "delete"
        /\ ret[q].kind = "true"

TypeOK ==
    /\ db \subseteq Row
    /\ pending \subseteq Row
    /\ writer \in Requests \cup {NoReq}
    /\ \A r \in Requests :
        /\ pc[r] \in {"idle", "select", "select_all", "insert", "refresh", "update",
                      "delete", "commit", "respond", "done"}
        /\ response[r].code \in {0, 200, 201, 204, 404, 422, 500}
        /\ session[r] \in {NoSession, ClosedSession}
                              \cup {OpenSession(o) : o \in SessionObjects}
====
